---- MODULE Spec2Model ----
(***************************************************************************)
(* Segmented LRU (SLRU) replacement policy of gem5: slru_rp.hh/slru_rp.cc. *)
(* One policy instance (SLRU) governs NumEntries replacement-data objects  *)
(* (SLRUReplData).  Every public method of SLRU is one action.  The owner  *)
(* calls the methods one at a time; the simulated clock curTick() is an    *)
(* environment variable that never decreases.                              *)
(***************************************************************************)
EXTENDS Integers, Sequences, FiniteSets, TLC

\* Number of SLRUReplData objects created by instantiateEntry().
NumEntries == 3
\* Largest protected_size parameter the constructor is given.
MaxProtectedSize == 2

\* std::numeric_limits<Tick>::max(); Tick is an unsigned integer type, its
\* width is scaled down so that the whole domain is enumerated.
TickMax == 2
\* Number of values of `unsigned` (protectedEntries), scaled down likewise.
UnsignedModulus == 16

\* enum Segment : uint8_t { Probation = 0, Protected = 1 }
Probation == 0
Protected == 1

\* nullptr of ReplaceableEntry* / "no entry".
NoEntry == 0
Entries == 1..NumEntries

VARIABLES
    protectedSize,     \* const unsigned SLRU::protectedSize
    protectedEntries,  \* mutable unsigned SLRU::protectedEntries
    protectedList,     \* mutable std::vector<shared_ptr<ReplacementData>>
    segment,           \* SLRUReplData::segment, per entry
    lastTouch,         \* SLRUReplData::lastTouch, per entry
    curTick,           \* value returned by curTick()
    status,            \* "running", "abort" after a failed assert or a crash,
                       \* "undefined" after undefined behaviour
    last,              \* the call made last: method, arguments, result
    fresh              \* history of the entries it is kept of:
                       \* "new" (instantiated, never touched), "once"
                       \* (touched exactly once since), "invalidated"
                       \* (invalidated and not touched or reset since),
                       \* "used" (touched again, reset or chosen as victim)

vars == <<protectedSize, protectedEntries, protectedList, segment, lastTouch,
          curTick, status, last, fresh>>

----------------------------------------------------------------------------
\* Helpers: std::vector and unsigned arithmetic.

\* std::find(list.begin(), list.end(), rd): position of the first occurrence,
\* Len(list) + 1 for list.end().
RECURSIVE FindFrom(_, _, _)
FindFrom(list, rd, i) ==
    IF i > Len(list) THEN i
    ELSE IF list[i] = rd THEN i
    ELSE FindFrom(list, rd, i + 1)

Find(list, rd) == FindFrom(list, rd, 1)

\* Mutant: erases the first element whatever the iterator.
EraseFront(list, it) == Tail(list)

\* std::vector::erase(it)
Erase(list, it) == SubSeq(list, 1, it - 1) \o SubSeq(list, it + 1, Len(list))

\* protectedEntries-- on an unsigned
Dec(n) == (n + UnsignedModulus - 1) % UnsignedModulus

\* protectedEntries++ on an unsigned
Inc(n) == (n + 1) % UnsignedModulus

\* Mutant: the build drops the assertions (NDEBUG) and the call goes on.
AssertIgnored == "running"

\* status after a failed assert(): the process is aborted.
AssertFailed == "abort"

\* status after undefined behaviour: the process dies, or it goes on in a
\* state nothing is known of.
UndefinedOutcomes == {"abort", "undefined"}

\* fresh after a call of the given kind on entry e; the history is kept only
\* of the entries in the domain of fresh.
FreshAfter(e, kind) ==
    IF e \notin DOMAIN fresh THEN fresh
    ELSE [fresh EXCEPT ![e] =
             CASE kind = "touch" -> IF @ = "new" THEN "once" ELSE "used"
               [] kind = "invalidate" -> "invalidated"
               [] kind = "victim" -> IF @ = "invalidated" THEN @ ELSE "used"
               [] OTHER -> "used"]

\* The call record kept in `last`: the method, its entry argument, the entry
\* it returned, and the segment of that entry and the value of
\* protectedEntries when the call was made.
Call(op, rd, ret, seg, n) ==
    [op |-> op, rd |-> rd, ret |-> ret, seg |-> seg, entries |-> n]

----------------------------------------------------------------------------
\* SLRUReplData() and SLRU::SLRU

Init ==
    /\ protectedSize \in 1..MaxProtectedSize
    /\ protectedEntries = 0
    /\ protectedList = <<>>
    /\ segment = [e \in Entries |-> Probation]
    /\ lastTouch = [e \in Entries |-> 0]
    /\ curTick = 0
    /\ status = "running"
    /\ last = Call("init", NoEntry, NoEntry, Probation, 0)
    /\ fresh = <<>>

\* The same, with the history of one entry kept.
InitHistory ==
    /\ protectedSize \in 1..MaxProtectedSize
    /\ protectedEntries = 0
    /\ protectedList = <<>>
    /\ segment = [e \in Entries |-> Probation]
    /\ lastTouch = [e \in Entries |-> 0]
    /\ curTick = 0
    /\ status = "running"
    /\ last = Call("init", NoEntry, NoEntry, Probation, 0)
    /\ \E x \in Entries : fresh = [e \in {x} |-> "new"]

\* The simulated clock moves on between two calls.
AdvanceTick ==
    /\ status = "running"
    /\ curTick < TickMax
    /\ curTick' = curTick + 1
    /\ last' = Call("tick", NoEntry, NoEntry, Probation, protectedEntries)
    /\ UNCHANGED <<protectedSize, protectedEntries, protectedList, segment,
                   lastTouch, status, fresh>>

----------------------------------------------------------------------------
\* SLRU::invalidate

\* Mutant: invalidate decrements protectedEntries whether or not it found the
\* entry in protectedList.
invalidateAlwaysDecrements(rd) ==
    /\ status = "running"
    /\ LET it == Find(protectedList, rd)
           found == segment[rd] = Protected /\ it # Len(protectedList) + 1
       IN  /\ protectedList' = IF found THEN Erase(protectedList, it)
                               ELSE protectedList
           /\ protectedEntries' = Dec(protectedEntries)
    /\ segment' = [segment EXCEPT ![rd] = Probation]
    /\ lastTouch' = [lastTouch EXCEPT ![rd] = 0]
    /\ fresh' = FreshAfter(rd, "invalidate")
    /\ last' = Call("invalidate", rd, NoEntry, segment[rd],
                    protectedEntries)
    /\ UNCHANGED <<protectedSize, curTick, status>>

invalidate(rd) ==
    /\ status = "running"
    /\ LET it == Find(protectedList, rd)
           found == segment[rd] = Protected /\ it # Len(protectedList) + 1
       IN  /\ protectedList' = IF found THEN Erase(protectedList, it)
                               ELSE protectedList
           /\ protectedEntries' = IF found THEN Dec(protectedEntries)
                                  ELSE protectedEntries
    /\ segment' = [segment EXCEPT ![rd] = Probation]
    /\ lastTouch' = [lastTouch EXCEPT ![rd] = 0]
    /\ fresh' = FreshAfter(rd, "invalidate")
    /\ last' = Call("invalidate", rd, NoEntry, segment[rd],
                    protectedEntries)
    /\ UNCHANGED <<protectedSize, curTick, status>>

----------------------------------------------------------------------------
\* SLRU::reset

\* Mutant: reset stamps the entry with Tick(0), as invalidate does.
resetStampsZero(rd) ==
    /\ status = "running"
    /\ LET it == Find(protectedList, rd)
           found == segment[rd] = Protected /\ it # Len(protectedList) + 1
       IN  /\ protectedList' = IF found THEN Erase(protectedList, it)
                               ELSE protectedList
           /\ protectedEntries' = IF found THEN Dec(protectedEntries)
                                  ELSE protectedEntries
    /\ segment' = [segment EXCEPT ![rd] = Probation]
    /\ lastTouch' = [lastTouch EXCEPT ![rd] = 0]
    /\ fresh' = FreshAfter(rd, "reset")
    /\ last' = Call("reset", rd, NoEntry, segment[rd], protectedEntries)
    /\ UNCHANGED <<protectedSize, curTick, status>>

reset(rd) ==
    /\ status = "running"
    /\ LET it == Find(protectedList, rd)
           found == segment[rd] = Protected /\ it # Len(protectedList) + 1
       IN  /\ protectedList' = IF found THEN Erase(protectedList, it)
                               ELSE protectedList
           /\ protectedEntries' = IF found THEN Dec(protectedEntries)
                                  ELSE protectedEntries
    /\ segment' = [segment EXCEPT ![rd] = Probation]
    /\ lastTouch' = [lastTouch EXCEPT ![rd] = curTick]
    /\ fresh' = FreshAfter(rd, "reset")
    /\ last' = Call("reset", rd, NoEntry, segment[rd], protectedEntries)
    /\ UNCHANGED <<protectedSize, curTick, status>>

----------------------------------------------------------------------------
\* SLRU::touch

\* Mutant: the scan compares with <=, so the last of equal minima wins.
RECURSIVE LruScanLastWins(_, _, _, _)
LruScanLastWins(list, it, lru_it, oldest) ==
    IF it > Len(list) THEN lru_it
    ELSE IF lastTouch[list[it]] <= oldest
         THEN LruScanLastWins(list, it + 1, it, lastTouch[list[it]])
         ELSE LruScanLastWins(list, it + 1, lru_it, oldest)

\* The scan for the LRU member of the protected list (the for loop of touch):
\* the position kept in lru_it when the iterator `it` has reached the end.
RECURSIVE LruScan(_, _, _, _)
LruScan(list, it, lru_it, oldest) ==
    IF it > Len(list) THEN lru_it
    ELSE IF lastTouch[list[it]] < oldest
         THEN LruScan(list, it + 1, it, lastTouch[list[it]])
         ELSE LruScan(list, it + 1, lru_it, oldest)

\* lru_it = protectedList.begin(); oldest = (*lru_it)->lastTouch; the loop.
LruIt(list) == LruScan(list, 1, 1, lastTouch[list[1]])

\* Mutant: the capacity test is off by one.
HasRoomOffByOne(n, size) == n <= size

\* protectedEntries < protectedSize
HasRoom(n, size) == n < size

\* Mutant: the promotion adds rd to the list but leaves its segment alone.
PromotedSegmentKept(rd) == segment

\* data->segment = SLRUReplData::Protected in the branch with room.
Promoted(rd) == [segment EXCEPT ![rd] = Protected]

\* Mutant: the LRU member leaves the list but keeps segment Protected.
DemoteForgotten(rd, lru) == [segment EXCEPT ![rd] = Protected]

\* segment after the else branch: the LRU member demoted, then rd promoted.
DemoteAndPromote(rd, lru) ==
    [[segment EXCEPT ![lru] = Probation] EXCEPT ![rd] = Protected]

\* Mutant: touch returns at once when the entry is already Protected, before
\* it stamps the entry.
touchSkipsProtected(rd) ==
    /\ status = "running"
    /\ IF /\ segment[rd] = Probation
          /\ ~HasRoom(protectedEntries, protectedSize)
          /\ protectedList = <<>>
       THEN /\ status' \in UndefinedOutcomes
            /\ UNCHANGED <<segment, protectedList, protectedEntries,
                           lastTouch, fresh>>
       ELSE /\ IF segment[rd] = Probation
               THEN /\ IF HasRoom(protectedEntries, protectedSize)
                       THEN /\ segment' = Promoted(rd)
                            /\ protectedList' = Append(protectedList, rd)
                            /\ protectedEntries' = Inc(protectedEntries)
                       ELSE LET lru_it == LruIt(protectedList)
                                lru_data == protectedList[lru_it]
                            IN  /\ segment' = DemoteAndPromote(rd, lru_data)
                                /\ protectedList' =
                                       Append(Erase(protectedList, lru_it), rd)
                                /\ UNCHANGED protectedEntries
                    /\ lastTouch' = [lastTouch EXCEPT ![rd] = curTick]
               ELSE UNCHANGED <<segment, protectedList, protectedEntries,
                                lastTouch>>
            /\ fresh' = FreshAfter(rd, "touch")
            /\ UNCHANGED status
    /\ last' = Call("touch", rd, NoEntry, segment[rd], protectedEntries)
    /\ UNCHANGED <<protectedSize, curTick>>

touch(rd) ==
    /\ status = "running"
    /\ IF /\ segment[rd] = Probation
          /\ ~HasRoom(protectedEntries, protectedSize)
          /\ protectedList = <<>>
       THEN \* *lru_it with lru_it = begin() of an empty vector: undefined
            /\ status' \in UndefinedOutcomes
            /\ UNCHANGED <<segment, protectedList, protectedEntries,
                           lastTouch, fresh>>
       ELSE /\ IF segment[rd] = Probation
               THEN IF HasRoom(protectedEntries, protectedSize)
                    THEN /\ segment' = Promoted(rd)
                         /\ protectedList' = Append(protectedList, rd)
                         /\ protectedEntries' = Inc(protectedEntries)
                    ELSE LET lru_it == LruIt(protectedList)
                             lru_data == protectedList[lru_it]
                         IN  /\ segment' = DemoteAndPromote(rd, lru_data)
                             /\ protectedList' =
                                    Append(Erase(protectedList, lru_it), rd)
                             /\ UNCHANGED protectedEntries
               ELSE UNCHANGED <<segment, protectedList, protectedEntries>>
            /\ lastTouch' = [lastTouch EXCEPT ![rd] = curTick]
            /\ fresh' = FreshAfter(rd, "touch")
            /\ UNCHANGED status
    /\ last' = Call("touch", rd, NoEntry, segment[rd], protectedEntries)
    /\ UNCHANGED <<protectedSize, curTick>>

----------------------------------------------------------------------------
\* SLRU::getVictim

\* The candidate vectors the owner passes: the entries of one associative
\* group, each once, in the order of their ways (entries are numbered in that
\* order).
Candidates ==
    {c \in UNION {[1..n -> Entries] : n \in 1..NumEntries} :
        \A i, j \in 1..Len(c) : i < j => c[i] < c[j]}

\* State of the scan of getVictim.
ScanStart ==
    [oldestProb |-> NoEntry, oldestProt |-> NoEntry,
     minProb |-> TickMax, minProt |-> TickMax]

\* Mutant: the comparisons are <=, so the last of equal minima wins.
ScanStepLastWins(s, ent) ==
    IF segment[ent] = Probation
    THEN IF lastTouch[ent] <= s.minProb
         THEN [s EXCEPT !.minProb = lastTouch[ent], !.oldestProb = ent]
         ELSE s
    ELSE IF lastTouch[ent] <= s.minProt
         THEN [s EXCEPT !.minProt = lastTouch[ent], !.oldestProt = ent]
         ELSE s

\* One iteration of the loop over the candidates, on candidate ent.
ScanStep(s, ent) ==
    IF segment[ent] = Probation
    THEN IF lastTouch[ent] < s.minProb
         THEN [s EXCEPT !.minProb = lastTouch[ent], !.oldestProb = ent]
         ELSE s
    ELSE IF lastTouch[ent] < s.minProt
         THEN [s EXCEPT !.minProt = lastTouch[ent], !.oldestProt = ent]
         ELSE s

\* The loop: the scan state after the first n candidates.
RECURSIVE Scan(_, _)
Scan(candidates, n) ==
    IF n = 0 THEN ScanStart
    ELSE ScanStep(Scan(candidates, n - 1), candidates[n])

getVictim(candidates) ==
    /\ status = "running"
    /\ LET s == Scan(candidates, Len(candidates))
           oldestProb == s.oldestProb
           oldestProt == s.oldestProt
       IN  IF candidates = <<>>
           THEN \* assert(!candidates.empty()) fails
                /\ status' = AssertFailed
                /\ last' = Call("getVictim", NoEntry, NoEntry,
                                Probation, protectedEntries)
                /\ UNCHANGED <<protectedSize, protectedEntries, protectedList,
                               segment, lastTouch, curTick, fresh>>
           ELSE IF oldestProb # NoEntry
           THEN \* return oldestProb
                /\ last' = Call("getVictim", NoEntry, oldestProb,
                                segment[oldestProb], protectedEntries)
                /\ fresh' = FreshAfter(oldestProb, "victim")
                /\ UNCHANGED <<protectedSize, protectedEntries, protectedList,
                               segment, lastTouch, curTick, status>>
           ELSE IF oldestProt = NoEntry
           THEN \* assert(oldestProt) fails
                /\ status' = AssertFailed
                /\ last' = Call("getVictim", NoEntry, NoEntry,
                                Probation, protectedEntries)
                /\ UNCHANGED <<protectedSize, protectedEntries, protectedList,
                               segment, lastTouch, curTick, fresh>>
           ELSE \* demote oldestProt and return it
                LET it == Find(protectedList, oldestProt)
                    found == it # Len(protectedList) + 1
                IN  /\ segment' = [segment EXCEPT ![oldestProt] = Probation]
                    /\ lastTouch' = [lastTouch EXCEPT ![oldestProt] = curTick]
                    /\ protectedList' = IF found THEN Erase(protectedList, it)
                                        ELSE protectedList
                    /\ protectedEntries' = IF found THEN Dec(protectedEntries)
                                           ELSE protectedEntries
                    /\ last' = Call("getVictim", NoEntry,
                                    oldestProt, segment[oldestProt],
                                    protectedEntries)
                    /\ fresh' = FreshAfter(oldestProt, "victim")
                    /\ UNCHANGED <<protectedSize, curTick, status>>

----------------------------------------------------------------------------
\* SLRU::getVictim of the strict variant (script.sh): no protected fallback.

\* One iteration of the strict loop: Protected candidates are skipped.
StrictScanStep(s, ent) ==
    IF segment[ent] = Probation /\ lastTouch[ent] < s.minProb
    THEN [s EXCEPT !.minProb = lastTouch[ent], !.oldestProb = ent]
    ELSE s

RECURSIVE StrictScan(_, _)
StrictScan(candidates, n) ==
    IF n = 0 THEN ScanStart
    ELSE StrictScanStep(StrictScan(candidates, n - 1), candidates[n])

getVictimStrict(candidates) ==
    /\ status = "running"
    /\ LET oldestProb == StrictScan(candidates, Len(candidates)).oldestProb
       IN  IF candidates = <<>>
           THEN \* assert(!candidates.empty()) fails
                /\ status' = AssertFailed
                /\ last' = Call("getVictim", NoEntry, NoEntry,
                                Probation, protectedEntries)
                /\ UNCHANGED fresh
           ELSE IF oldestProb # NoEntry
           THEN /\ last' = Call("getVictim", NoEntry, oldestProb,
                                segment[oldestProb], protectedEntries)
                /\ fresh' = FreshAfter(oldestProb, "victim")
                /\ UNCHANGED status
           ELSE \* assert(oldestProb && "No probationary entries available")
                /\ status' = AssertFailed
                /\ last' = Call("getVictim", NoEntry, NoEntry,
                                Probation, protectedEntries)
                /\ UNCHANGED fresh
    /\ UNCHANGED <<protectedSize, protectedEntries, protectedList, segment,
                   lastTouch, curTick>>

----------------------------------------------------------------------------
\* The owning cache calls the methods one at a time, in any order.

Next ==
    \/ AdvanceTick
    \/ \E rd \in Entries : invalidate(rd)
    \/ \E rd \in Entries : reset(rd)
    \/ \E rd \in Entries : touch(rd)
    \/ \E candidates \in Candidates : getVictim(candidates)

Spec == Init /\ [][Next]_vars

\* The same policy with the strict getVictim of script.sh.
NextStrict ==
    \/ AdvanceTick
    \/ \E rd \in Entries : invalidate(rd)
    \/ \E rd \in Entries : reset(rd)
    \/ \E rd \in Entries : touch(rd)
    \/ \E candidates \in Candidates : getVictimStrict(candidates)

SpecStrict == Init /\ [][NextStrict]_vars

\* The policy with the history of one entry kept.
SpecHistory == InitHistory /\ [][Next]_vars

\* An owner that breaks the contract of getVictim and may pass no candidate.
NextEmpty ==
    \/ Next
    \/ getVictim(<<>>)

SpecEmpty == Init /\ [][NextEmpty]_vars

\* The policy as the constructor accepts it: protected_size is not checked
\* and may be 0.
InitAnySize ==
    /\ protectedSize \in 0..MaxProtectedSize
    /\ protectedEntries = 0
    /\ protectedList = <<>>
    /\ segment = [e \in Entries |-> Probation]
    /\ lastTouch = [e \in Entries |-> 0]
    /\ curTick = 0
    /\ status = "running"
    /\ last = Call("init", NoEntry, NoEntry, Probation, 0)
    /\ fresh = <<>>

SpecAnySize == InitAnySize /\ [][Next]_vars

----------------------------------------------------------------------------
\* The scenario with protectedSize 2: the owner instantiates four entries
\* A, B, C, D (1, 2, 3, 4), touches A, A, B, B, C, C while the clock moves on
\* freely, then asks for a victim among the demoted entry and D (in either
\* order) and resets the victim for the new line.

ScenarioEntries == 1..4

\* The order of the touch calls.
Script == <<1, 1, 2, 2, 3, 3>>

\* Number of touch calls made on e so far (touch is the only call made).
Touched(e) == IF fresh[e] = "new" THEN 0 ELSE IF fresh[e] = "once" THEN 1 ELSE 2

\* Number of touch calls of the script made so far.
ScriptDone == Touched(1) + Touched(2) + Touched(3)

ScenarioInit ==
    /\ protectedSize = 2
    /\ protectedEntries = 0
    /\ protectedList = <<>>
    /\ segment = [e \in ScenarioEntries |-> Probation]
    /\ lastTouch = [e \in ScenarioEntries |-> 0]
    /\ curTick = 0
    /\ status = "running"
    /\ last = Call("init", NoEntry, NoEntry, Probation, 0)
    /\ fresh = [e \in ScenarioEntries |-> "new"]

ScenarioTouch ==
    /\ ScriptDone < Len(Script)
    /\ touch(Script[ScriptDone + 1])

ScenarioVictim ==
    /\ ScriptDone = Len(Script)
    /\ fresh[4] = "new"
    /\ \E d \in {1, 2} :
           /\ segment[d] = Probation
           /\ getVictim(<<d, 4>>) \/ getVictim(<<4, d>>)

ScenarioReset ==
    /\ last.op = "getVictim"
    /\ last.ret # NoEntry
    /\ reset(last.ret)

NextScenario ==
    \/ AdvanceTick
    \/ ScenarioTouch
    \/ ScenarioVictim
    \/ ScenarioReset

SpecScenario == ScenarioInit /\ [][NextScenario]_vars

----------------------------------------------------------------------------
\* Properties.

InList(list, e) == \E i \in 1..Len(list) : list[i] = e

\* C1 (capacity invariant): after every call protectedEntries equals the
\* length of protectedList and does not exceed protectedSize.
C1_Capacity ==
    /\ protectedEntries = Len(protectedList)
    /\ protectedEntries <= protectedSize

\* C1 witness: a touch found the protected segment full and replaced a member.
C1_Witness ==
    /\ last.op = "touch"
    /\ last.seg = Probation
    /\ last.entries = protectedSize
    /\ Len(protectedList) = protectedSize

\* C2 (segment/membership correspondence): an entry is Protected iff it is in
\* protectedList, and protectedList holds no entry twice.
C2_Membership ==
    /\ \A e \in Entries : segment[e] = Protected <=> InList(protectedList, e)
    /\ \A i, j \in 1..Len(protectedList) :
           protectedList[i] = protectedList[j] => i = j

\* C2 witness: a member was demoted by a touch while another member stays.
C2_Witness ==
    /\ last.op = "touch"
    /\ last.seg = Probation
    /\ last.entries = protectedSize
    /\ \E e \in Entries : e # last.rd /\ segment[e] = Protected
    /\ \E e \in Entries : segment[e] = Probation /\ lastTouch[e] > 0

\* C3 as stated (promotion threshold): with room in the protected segment, the
\* first touch of a fresh entry leaves it in Probation and the second touch
\* makes it Protected.
C3_TwoTouches ==
    [][\A e \in DOMAIN fresh :
          (touch(e) /\ protectedEntries < protectedSize) =>
              /\ fresh[e] = "new" => segment'[e] = Probation
              /\ fresh[e] = "once" => segment'[e] = Protected]_vars

\* C3 amended: with room in the protected segment, already the first touch of
\* a fresh entry makes it Protected, and it is Protected after the second.
C3_FirstTouchPromotes ==
    [][\A e \in DOMAIN fresh :
          (touch(e) /\ protectedEntries < protectedSize) =>
              /\ fresh[e] = "new" => segment'[e] = Protected
              /\ fresh[e] = "once" => segment'[e] = Protected]_vars

\* C3 witness: a fresh entry has been touched exactly once, with room.
C3_Witness ==
    /\ last.op = "touch"
    /\ last.entries < protectedSize
    /\ last.rd \in DOMAIN fresh
    /\ fresh[last.rd] = "once"
    /\ last.seg = Probation

\* Positions of the Probation / Protected candidates of a candidate vector.
ProbationAt(c) == {i \in 1..Len(c) : segment[c[i]] = Probation}
ProtectedAt(c) == {i \in 1..Len(c) : segment[c[i]] = Protected}

\* The candidate, among those at the positions at, with the least lastTouch;
\* of several such, the one first in iteration order.
Oldest(c, at) ==
    c[CHOOSE i \in at :
          \A j \in at : \/ lastTouch[c[i]] < lastTouch[c[j]]
                        \/ lastTouch[c[i]] = lastTouch[c[j]] /\ i <= j]

\* list with every occurrence of e removed, the order of the rest kept.
Without(list, e) == SelectSeq(list, LAMBDA x : x # e)

\* C4 (victim preference): from candidates of both segments, whatever their
\* lastTouch, getVictim returns a Probation entry; it returns a Protected
\* candidate only when every candidate is Protected.
C4_VictimPreference ==
    [][\A c \in Candidates :
          getVictim(c) =>
              /\ (ProbationAt(c) # {} /\ ProtectedAt(c) # {}) =>
                     (last'.ret \in Entries /\ segment[last'.ret] = Probation)
              /\ (last'.ret \in Entries /\ segment[last'.ret] = Protected) =>
                     ProbationAt(c) = {}]_vars

\* C5 (primary selection rule): when a candidate is in Probation, getVictim
\* returns the Probation candidate with the least lastTouch, the first in
\* iteration order of those sharing it.
C5_PrimaryRule ==
    [][\A c \in Candidates :
          (getVictim(c) /\ ProbationAt(c) # {}) =>
              last'.ret = Oldest(c, ProbationAt(c))]_vars

\* C6 (fallback rule): when every candidate is Protected, getVictim returns
\* the candidate with the least lastTouch (first on ties), makes it Probation,
\* stamps it with the current tick, removes it from protectedList and
\* decrements protectedEntries by 1; nothing else changes.
C6_FallbackRule ==
    [][\A c \in Candidates :
          (getVictim(c) /\ ProbationAt(c) = {}) =>
              LET v == Oldest(c, 1..Len(c))
              IN  /\ last'.ret = v
                  /\ segment' = [segment EXCEPT ![v] = Probation]
                  /\ lastTouch' = [lastTouch EXCEPT ![v] = curTick]
                  /\ protectedList' = Without(protectedList, v)
                  /\ protectedEntries' = protectedEntries - 1]_vars

\* C7 (probation never empty for an eviction), of the strict getVictim: every
\* candidate vector it is given holds a Probation entry, so its assertion never
\* fails and it returns the least recently used Probation candidate.
C7_ProbationNeverEmpty ==
    [][\A c \in Candidates :
          getVictimStrict(c) =>
              /\ ProbationAt(c) # {}
              /\ status' = "running"
              /\ last'.ret = Oldest(c, ProbationAt(c))]_vars

\* What invalidate and reset share: e becomes Probation, no other segment
\* changes; if e was Protected it leaves protectedList and protectedEntries
\* drops by 1, else the list and the counter are unchanged.
RemovedFromProtected(e) ==
    /\ segment' = [segment EXCEPT ![e] = Probation]
    /\ IF segment[e] = Protected
       THEN /\ ~InList(protectedList', e)
            /\ protectedList' = Without(protectedList, e)
            /\ protectedEntries' = protectedEntries - 1
       ELSE UNCHANGED <<protectedList, protectedEntries>>

\* C8 (invalidate resets state): after invalidate(e), e is Probation with
\* lastTouch 0; e has left the protected segment if it was there, and no other
\* entry's segment or lastTouch has changed.
C8_Invalidate ==
    [][\A e \in Entries :
          invalidate(e) =>
              /\ RemovedFromProtected(e)
              /\ lastTouch' = [lastTouch EXCEPT ![e] = 0]]_vars

\* C8 witness: a Protected entry was invalidated while another entry stayed
\* Protected, at a tick other than 0.
C8_Witness ==
    /\ last.op = "invalidate"
    /\ last.seg = Protected
    /\ curTick > 0
    /\ protectedList # <<>>

\* C9 (reset): reset(e) does the bookkeeping of invalidate(e) and differs only
\* in setting e's lastTouch to the current tick instead of 0.
C9_Reset ==
    [][\A e \in Entries :
          reset(e) =>
              /\ RemovedFromProtected(e)
              /\ lastTouch' = [lastTouch EXCEPT ![e] = curTick]]_vars

\* C9 witness: a Protected entry was reset at a tick other than 0.
C9_Witness ==
    /\ last.op = "reset"
    /\ last.seg = Protected
    /\ curTick > 0
    /\ lastTouch[last.rd] = curTick

\* C10 (demotion on full): a touch of a Probation entry e with the protected
\* segment full demotes exactly the member with the least lastTouch (the first
\* in list order of equal minima, never e): that member becomes Probation
\* with its lastTouch kept, e becomes Protected and is appended, and
\* protectedEntries is unchanged.  With protectedSize 1, each of the two
\* touches of B leaves B Protected and every other entry, a promoted A
\* included, in Probation.
C10_DemotionOnFull ==
    [][\A e \in Entries :
          touch(e) =>
              /\ (segment[e] = Probation /\ protectedEntries = protectedSize) =>
                     LET d == Oldest(protectedList, 1..Len(protectedList))
                     IN  /\ d # e
                         /\ segment' = [[segment EXCEPT ![d] = Probation]
                                           EXCEPT ![e] = Protected]
                         /\ lastTouch'[d] = lastTouch[d]
                         /\ protectedList' =
                                Append(Without(protectedList, d), e)
                         /\ protectedEntries' = protectedEntries
              /\ protectedSize = 1 =>
                     /\ segment'[e] = Protected
                     /\ \A a \in Entries \ {e} : segment'[a] = Probation]_vars

\* C10 witness: a touch demoted, of two members with equal lastTouch, the
\* first, while the entry touched was stamped later.
C10_Witness ==
    /\ last.op = "touch"
    /\ last.seg = Probation
    /\ last.entries = protectedSize
    /\ Len(protectedList) = 2
    /\ \E d \in Entries :
           /\ segment[d] = Probation
           /\ lastTouch[d] = lastTouch[protectedList[1]]
           /\ lastTouch[d] < lastTouch[last.rd]

\* C11 (scenario, protectedSize 2, fresh A, B, C, D): after the touches
\* A, A, B, B both A and B are Protected and protectedEntries is 2; after the
\* touches C, C, C is Protected, the least recently touched of A and B (A, whose
\* second touch came first) is in Probation, B is still Protected and
\* protectedEntries is 2; getVictim on the demoted entry and D then returns a
\* Probation entry and changes no entry, list or counter.
C11_Scenario ==
    [][/\ (ScriptDone' = 4 /\ last'.op = "touch") =>
              /\ segment'[1] = Protected /\ segment'[2] = Protected
              /\ segment'[3] = Probation /\ segment'[4] = Probation
              /\ protectedEntries' = 2
       /\ (ScriptDone' = 6 /\ last'.op = "touch") =>
              /\ segment'[3] = Protected
              /\ segment'[1] = Probation /\ segment'[2] = Protected
              /\ lastTouch'[1] <= lastTouch'[2]
              /\ protectedList' = <<2, 3>>
              /\ protectedEntries' = 2
       /\ (last'.op = "getVictim") =>
              /\ status' = "running"
              /\ last'.ret \in {1, 4}
              /\ segment'[last'.ret] = Probation
              /\ UNCHANGED <<segment, lastTouch, protectedList,
                             protectedEntries>>]_vars

\* C11 witness: the whole scenario has run, A was touched before B and both
\* after tick 0, and getVictim has returned D.
C11_Witness ==
    /\ ScriptDone = 6
    /\ last.op = "getVictim"
    /\ last.ret = 4
    /\ lastTouch[1] > 0
    /\ lastTouch[2] > lastTouch[1]

\* C12 (frame of touch): touch(e) sets e's lastTouch to the current tick on
\* every branch and no other lastTouch changes.  If e is Protected nothing
\* else changes.  If e is in Probation, at most one other entry changes, the
\* one demoted when the segment is full, and only in its segment.
C12_TouchFrame ==
    [][\A e \in Entries :
          touch(e) =>
              LET changed == {x \in Entries \ {e} : segment'[x] # segment[x]}
              IN  /\ lastTouch' = [lastTouch EXCEPT ![e] = curTick]
                  /\ segment[e] = Protected =>
                         UNCHANGED <<segment, protectedList, protectedEntries>>
                  /\ segment[e] = Probation =>
                         /\ Cardinality(changed) <= 1
                         /\ protectedEntries < protectedSize => changed = {}
                         /\ \A x \in changed :
                                segment[x] = Protected /\ segment'[x] = Probation]_vars

\* C12 witness: an entry already Protected was touched and stamped with the
\* current tick, while another Protected entry keeps an earlier stamp.
C12_Witness ==
    /\ last.op = "touch"
    /\ last.seg = Protected
    /\ lastTouch[last.rd] = curTick
    /\ \E x \in Entries : segment[x] = Protected /\ lastTouch[x] < curTick

\* C13 (getVictim selects only): when a candidate is in Probation, getVictim
\* changes no segment, no lastTouch, not protectedList and not
\* protectedEntries; it changes policy state only when every candidate is
\* Protected.
C13_PrimaryPathPure ==
    [][\A c \in Candidates :
          (getVictim(c) /\ ProbationAt(c) # {}) =>
              UNCHANGED <<segment, lastTouch, protectedList,
                          protectedEntries>>]_vars

\* C14 (invalidated entries are the stalest): from invalidate(e) until the
\* next touch or reset of e, no getVictim whose candidates include e can end
\* otherwise than by returning an entry with lastTouch 0: e, or a Probation
\* candidate with lastTouch 0 that comes before e.
C14_InvalidatedIsStalest ==
    \A e \in DOMAIN fresh :
        fresh[e] = "invalidated" =>
            \A c \in Candidates :
                \A i \in 1..Len(c) :
                    c[i] = e =>
                        ~ENABLED (/\ getVictim(c)
                                  /\ ~(/\ status' = "running"
                                       /\ \E j \in 1..i :
                                              /\ last'.ret = c[j]
                                              /\ segment[c[j]] = Probation
                                              /\ lastTouch[c[j]] = 0
                                       /\ fresh'[e] = "invalidated"))

\* C14 witness: getVictim returned an invalidated entry although the clock
\* has moved on and another Probation entry carries a later stamp.
C14_Witness ==
    /\ last.op = "getVictim"
    /\ last.ret \in DOMAIN fresh
    /\ fresh[last.ret] = "invalidated"
    /\ \E x \in Entries \ {last.ret} :
           /\ segment[x] = Probation
           /\ lastTouch[x] > 0

\* C15 (the two getVictim variants side by side): from the same state and the
\* same candidates with a Probation entry among them, the strict and the
\* fallback variant return the same victim and leave the same state; when
\* every candidate is Protected the strict variant fails its assertion and the
\* fallback variant returns and demotes the least recently touched candidate.
C15_VariantsAgree ==
    [][\A c \in Candidates :
          getVictim(c) =>
              IF ProbationAt(c) # {}
              THEN getVictimStrict(c)
              ELSE /\ ~ENABLED (getVictimStrict(c) /\ status' # AssertFailed)
                   /\ status' = "running"
                   /\ last'.ret = Oldest(c, ProtectedAt(c))
                   /\ segment'[last'.ret] = Probation]_vars

\* C16 (empty candidate set): getVictim of no candidates ends in a failed
\* assertion; it returns no entry and changes no entry, not protectedList and
\* not protectedEntries.
C16_EmptyCandidates ==
    [][getVictim(<<>>) =>
          /\ status' = "abort"
          /\ last'.ret = NoEntry
          /\ UNCHANGED <<segment, lastTouch, protectedList,
                         protectedEntries>>]_vars

\* C16 witness: the assertion failed on an empty candidate set in a state
\* with a Protected entry, where a scan of any candidates would have
\* succeeded.
C16_Witness ==
    /\ status = "abort"
    /\ last.op = "getVictim"
    /\ protectedList # <<>>
    /\ \A e \in Entries : lastTouch[e] < TickMax

\* C17 (the victim is out of the tracker): in every reachable state, no
\* getVictim of non-empty candidates can return, on the primary or on the
\* fallback path, an entry that is not one of the candidates, not in Probation
\* or still in protectedList; and right after getVictim has returned an entry
\* no reset of it can change protectedList or protectedEntries.
C17_VictimOutOfTracker ==
    /\ \A c \in Candidates :
           ~ENABLED (/\ getVictim(c)
                     /\ status' = "running"
                     /\ ~(/\ \E i \in 1..Len(c) : last'.ret = c[i]
                          /\ segment'[last'.ret] = Probation
                          /\ ~InList(protectedList', last'.ret)))
    /\ (last.op = "getVictim" /\ last.ret # NoEntry) =>
           ~ENABLED (/\ reset(last.ret)
                     /\ ~UNCHANGED <<protectedList, protectedEntries>>)

\* C17 witness: getVictim returned from the fallback path a candidate that
\* was Protected; it is now in Probation and out of protectedList.
C17_Witness ==
    /\ last.op = "getVictim"
    /\ last.ret # NoEntry
    /\ last.seg = Protected
    /\ segment[last.ret] = Probation
    /\ ~InList(protectedList, last.ret)
    /\ protectedList # <<>>

\* C18 (a touch always ends in Protected): with protectedSize >= 1, right
\* after touch(e) the entry e is Protected and in protectedList, whatever its
\* segment was and whether or not the protected segment was full.
C18_TouchEndsProtected ==
    [][\A e \in Entries :
          touch(e) =>
              /\ status' = "running"
              /\ segment'[e] = Protected
              /\ InList(protectedList', e)]_vars

\* C18 witness: a single touch promoted a Probation entry into a protected
\* segment of size 1 that was full; the entry is now its only member.
C18_Witness ==
    /\ last.op = "touch"
    /\ last.seg = Probation
    /\ protectedSize = 1
    /\ last.entries = 1
    /\ segment[last.rd] = Protected
    /\ protectedList = <<last.rd>>

\* C19 (a removal is counted once): invalidate(e) or reset(e) right after an
\* invalidate(e) or reset(e) leaves protectedList and protectedEntries
\* unchanged; and after getVictim has returned v from the fallback path, the
\* reset(v) or invalidate(v) that follows leaves protectedEntries at 1 less
\* than it was before the getVictim, not 2 less.
C19_RemovalCountedOnce ==
    [][/\ \A e \in Entries :
              (/\ last.op \in {"invalidate", "reset"}
               /\ last.rd = e
               /\ invalidate(e) \/ reset(e)) =>
                  UNCHANGED <<protectedList, protectedEntries>>
       /\ \A v \in Entries :
              (/\ last.op = "getVictim"
               /\ last.ret = v
               /\ last.seg = Protected
               /\ reset(v) \/ invalidate(v)) =>
                  /\ protectedEntries' = last.entries - 1
                  /\ protectedEntries' = Len(protectedList')]_vars

\* C19 witness: getVictim has returned v from the fallback path out of a full
\* protected segment, and the reset of v that follows leaves the count at 1
\* less than before the getVictim.
C19_Witness ==
    /\ last.op = "getVictim"
    /\ last.ret # NoEntry
    /\ last.seg = Protected
    /\ last.entries = protectedSize
    /\ ENABLED (reset(last.ret) /\ protectedEntries' = last.entries - 1)

\* C20 (the LRU scan reads a list element): whenever touch takes its
\* segment-full branch (protectedEntries >= protectedSize), protectedList is
\* not empty, for every protectedSize the constructor accepts, 0 included.
C20_FullBranchHasMember ==
    [][\A e \in Entries :
          (/\ touch(e)
           /\ segment[e] = Probation
           /\ ~HasRoom(protectedEntries, protectedSize)) =>
              protectedList # <<>>]_vars

====
